---- MODULE Spec2Model ----
(***************************************************************************)
(* Model of webserver.py: a single-threaded HTTPServer whose handler       *)
(* PatternMatchingServer answers every GET with a JSON payload looked up   *)
(* by exact request path, and a __main__ block that turns a                *)
(* KeyboardInterrupt into a shutdown notice.                               *)
(***************************************************************************)
EXTENDS Integers, Sequences, FiniteSets, TLC

VARIABLES
    pc,               \* position of the (only) server thread
    args,             \* arguments run_server was called with
    host, port,       \* run_server's parameters after defaulting
    listenAddr,       \* address of the listening socket, NoAddr when none
    reqs,             \* client connections in arrival order: [path, st]
    wire,             \* what each connection has received: [status, headers, body]
    self,             \* the handler instance of the request being processed
    URL_PATTERNS,     \* class attribute PatternMatchingServer.URL_PATTERNS
    DEFAULT_RESPONSE, \* class attribute PatternMatchingServer.DEFAULT_RESPONSE
    stdout,           \* lines written by print()
    now,              \* the time send_response last read for a Date header
    sigint,           \* TRUE once SIGINT has been delivered
    exitStatus        \* how the process ended: "running", "clean", "traceback"

vars == <<pc, args, host, port, listenAddr, reqs, wire, self, URL_PATTERNS,
          DEFAULT_RESPONSE, stdout, now, sigint, exitStatus>>

----------------------------------------------------------------------------
(* Bounds of the model *)

MaxRequests == 2
MaxClock == 1

----------------------------------------------------------------------------
(* Module-level data *)

C == [SECURITY_RISKS |-> 32, CIPA |-> 34, VIOLENCE |-> 32,
      SECURITY_THREATS |-> 21, QUESTIONABLE_CONTENT |-> 17]

TablePaths == {"/categories/192.168.0.3", "/categories/192.168.0.191",
               "/categories/::1"}

InitialPatterns_sorted ==
    [p \in TablePaths |->
        [categories |-> <<C.SECURITY_THREATS, C.SECURITY_RISKS, C.CIPA>>]]

InitialPatterns ==
    [p \in TablePaths |->
        [categories |-> <<C.SECURITY_RISKS, C.SECURITY_THREATS, C.CIPA>>]]

InitialDefault == [categories |-> <<>>]

DefaultHost == "0.0.0.0"
DefaultPort == 8080

NoAddr == <<>>

----------------------------------------------------------------------------
(* Inputs *)

OtherHosts == {"127.0.0.1"}
OtherPorts == {9000}

(* The keyword arguments of a call run_server(...): none as in __main__,
   the port alone, or both. *)
NoKwargs == [k \in {} |-> 0]

KwargChoices ==
    {NoKwargs}
    \cup {[k \in {"port"} |-> p] : p \in OtherPorts}
    \cup {[host |-> h, port |-> p] : h \in OtherHosts, p \in OtherPorts}

SlashPaths == {p \o "/" : p \in TablePaths}
QueryPaths == {p \o "?x=1" : p \in TablePaths}
OtherPaths == {"/categories/10.0.0.1"}

Paths == TablePaths \cup SlashPaths \cup QueryPaths \cup OtherPaths

----------------------------------------------------------------------------
(* Text and bytes.  A str is a TLA+ string where it is only concatenated
   (the log lines) and a sequence of one-character strings where it is
   encoded (the JSON body); bytes are a sequence of integers. *)

Digits == <<"0", "1", "2", "3", "4", "5", "6", "7", "8", "9">>

RECURSIVE DecimalChars(_)
DecimalChars(n) ==
    IF n < 10 THEN <<Digits[n + 1]>>
    ELSE DecimalChars(n \div 10) \o <<Digits[(n % 10) + 1]>>

RECURSIVE JoinChars(_, _)
JoinChars(items, sep) ==
    IF Len(items) = 0 THEN <<>>
    ELSE IF Len(items) = 1 THEN items[1]
    ELSE items[1] \o sep \o JoinChars(Tail(items), sep)

CategoriesKeyChars == <<"c", "a", "t", "e", "g", "o", "r", "i", "e", "s">>

(* json.dumps with its default separators ", " and ": " *)
JsonDumps_compact(response) ==
    <<"{", "\"">> \o CategoriesKeyChars \o <<"\"", ":", "[">>
    \o JoinChars([i \in 1..Len(response.categories) |->
                     DecimalChars(response.categories[i])], <<",">>)
    \o <<"]", "}">>

JsonDumps(response) ==
    <<"{", "\"">> \o CategoriesKeyChars \o <<"\"", ":", " ", "[">>
    \o JoinChars([i \in 1..Len(response.categories) |->
                     DecimalChars(response.categories[i])], <<",", " ">>)
    \o <<"]", "}">>

AsciiTable ==
    [c \in {" ", "\"", ",", "0", "1", "2", "3", "4", "5", "6", "7", "8", "9",
            ":", "[", "]", "a", "c", "e", "g", "i", "o", "r", "s", "t", "{", "}"} |->
        CASE c = " " -> 32
          [] c = "\"" -> 34
          [] c = "," -> 44
          [] c = "0" -> 48 [] c = "1" -> 49 [] c = "2" -> 50 [] c = "3" -> 51
          [] c = "4" -> 52 [] c = "5" -> 53 [] c = "6" -> 54 [] c = "7" -> 55
          [] c = "8" -> 56 [] c = "9" -> 57
          [] c = ":" -> 58
          [] c = "[" -> 91
          [] c = "]" -> 93
          [] c = "a" -> 97 [] c = "c" -> 99 [] c = "e" -> 101 [] c = "g" -> 103
          [] c = "i" -> 105 [] c = "o" -> 111 [] c = "r" -> 114 [] c = "s" -> 115
          [] c = "t" -> 116
          [] c = "{" -> 123
          [] c = "}" -> 125]

AsciiCode(c) == AsciiTable[c]

(* str.encode('utf-8'): every character json.dumps emits here is ASCII, so
   each becomes the one byte of its code point. *)
Utf8Encode(chars) == [i \in 1..Len(chars) |-> AsciiCode(chars[i])]

RECURSIVE JoinStr(_, _)
JoinStr(items, sep) ==
    IF Len(items) = 0 THEN ""
    ELSE IF Len(items) = 1 THEN items[1]
    ELSE items[1] \o sep \o JoinStr(Tail(items), sep)

(* str() of the response dict, as the f-string formats it *)
PyStr(response) ==
    "{'categories': ["
    \o JoinStr([i \in 1..Len(response.categories) |->
                   ToString(response.categories[i])], ", ")
    \o "]}"

LogLine(path, response) ==
    "Request: " \o path \o " -> Response: " \o PyStr(response)

Banner(h, p) == "Server running at http://" \o h \o ":" \o ToString(p)

ShutdownNotice == "\nShutting down server..."

(* BaseHTTPRequestHandler.date_time_string for the first seconds of the epoch *)
DateTimeString(t) == "Thu, 01 Jan 1970 00:00:0" \o ToString(t) \o " GMT"

ServerVersion == "BaseHTTP/0.6 Python/3"

----------------------------------------------------------------------------
(* Helpers over the state *)

StatusCode == 200

NoResponse == [categories |-> <<>>, unset |-> TRUE]

NoSelf == [req |-> 0, path |-> "", status |-> 0, headers |-> <<>>,
           response |-> NoResponse]

NothingSent == [status |-> 0, headers |-> <<>>, body |-> <<>>]

(* A parameter of run_server: the argument when given, else its default *)
Param(kwargs, name, default) ==
    IF name \in DOMAIN kwargs THEN kwargs[name] ELSE default

ServerAddress_anyhost(h, p) == <<DefaultHost, p>>

ServerAddress(h, p) == <<h, p>>

(* dict.get(key, default) *)
DictGet_stripslash(d, key, default) ==
    IF \E k \in DOMAIN d : key \in {k, k \o "/"}
    THEN d[CHOOSE k \in DOMAIN d : key \in {k, k \o "/"}]
    ELSE default

DictGet(d, key, default) == IF key \in DOMAIN d THEN d[key] ELSE default

Queued == {r \in 1..Len(reqs) : reqs[r].st = "queued"}

(* The connection accept() returns: the oldest one in the listen queue *)
NextQueued == CHOOSE r \in Queued : \A q \in Queued : r <= q

(* The request-target the handler parsed from connection r into self.path *)
RequestPath_latest(r) == reqs[Len(reqs)].path

RequestPath(r) == reqs[r].path

Running == exitStatus = "running"

----------------------------------------------------------------------------
(* Initial state: run_server has been called with args, inside the try block *)

Init ==
    /\ args \in KwargChoices
    /\ host = Param(args, "host", DefaultHost)
    /\ port = Param(args, "port", DefaultPort)
    /\ pc = "run_server"
    /\ listenAddr = NoAddr
    /\ reqs = <<>>
    /\ wire = <<>>
    /\ self = NoSelf
    /\ URL_PATTERNS = InitialPatterns
    /\ DEFAULT_RESPONSE = InitialDefault
    /\ stdout = <<>>
    /\ now = 0
    /\ sigint = FALSE
    /\ exitStatus = "running"

----------------------------------------------------------------------------
(* run_server *)

(* HTTPServer(server_address, PatternMatchingServer): bind and listen *)
CreateServer ==
    /\ pc = "run_server"
    /\ listenAddr' = ServerAddress(host, port)
    /\ pc' = "banner"
    /\ UNCHANGED <<args, host, port, reqs, wire, self, URL_PATTERNS,
                   DEFAULT_RESPONSE, stdout, now, sigint, exitStatus>>

(* The bind fails (address in use, bad host): OSError is not a
   KeyboardInterrupt, so it leaves the try block uncaught. *)
BindFails ==
    /\ pc = "run_server"
    /\ pc' = "crashed"
    /\ exitStatus' = "traceback"
    /\ UNCHANGED <<args, host, port, listenAddr, reqs, wire, self,
                   URL_PATTERNS, DEFAULT_RESPONSE, stdout, now, sigint>>

PrintBanner ==
    /\ pc = "banner"
    /\ stdout' = Append(stdout, Banner(host, port))
    /\ pc' = "serve_forever"
    /\ UNCHANGED <<args, host, port, listenAddr, reqs, wire, self,
                   URL_PATTERNS, DEFAULT_RESPONSE, now, sigint, exitStatus>>

(* serve_forever takes the next connection, builds a handler for it, parses
   the request line and dispatches to do_GET. *)
Accept ==
    /\ pc = "serve_forever"
    /\ Queued # {}
    /\ LET r == NextQueued IN
        /\ reqs' = [reqs EXCEPT ![r].st = "accepted"]
        /\ self' = [NoSelf EXCEPT !.req = r, !.path = RequestPath(r)]
    /\ pc' = "send_response"
    /\ UNCHANGED <<args, host, port, listenAddr, wire, URL_PATTERNS,
                   DEFAULT_RESPONSE, stdout, now, sigint, exitStatus>>

----------------------------------------------------------------------------
(* Environment: the clients *)

(* A client connects and sends "GET <path>"; the kernel queues the
   connection on the listening socket. *)
Connect(path) ==
    /\ Running
    /\ listenAddr # NoAddr
    /\ Len(reqs) < MaxRequests
    /\ reqs' = Append(reqs, [path |-> path, st |-> "queued"])
    /\ wire' = Append(wire, NothingSent)
    /\ UNCHANGED <<pc, args, host, port, listenAddr, self, URL_PATTERNS,
                   DEFAULT_RESPONSE, stdout, now, sigint, exitStatus>>

----------------------------------------------------------------------------
(* PatternMatchingServer.do_GET, one action per statement *)

(* self.send_response(200): buffers the status line and the Server and
   Date headers that BaseHTTPRequestHandler adds itself.  The Date is the
   time of the call, which is no earlier than the last time read. *)
SendResponse ==
    /\ pc = "send_response"
    /\ \E t \in now..MaxClock :
        /\ now' = t
        /\ self' = [self EXCEPT
                        !.status = StatusCode,
                        !.headers = <<<<"Server", ServerVersion>>,
                                      <<"Date", DateTimeString(t)>>>>]
    /\ pc' = "send_header_content_type"
    /\ UNCHANGED <<args, host, port, listenAddr, reqs, wire, URL_PATTERNS,
                   DEFAULT_RESPONSE, stdout, sigint, exitStatus>>

SendHeaderContentType ==
    /\ pc = "send_header_content_type"
    /\ self' = [self EXCEPT
                    !.headers = Append(@, <<"Content-Type", "application/json">>)]
    /\ pc' = "send_header_cors"
    /\ UNCHANGED <<args, host, port, listenAddr, reqs, wire, URL_PATTERNS,
                   DEFAULT_RESPONSE, stdout, now, sigint, exitStatus>>

SendHeaderCors_omitted ==
    /\ pc = "send_header_cors"
    /\ pc' = "end_headers"
    /\ UNCHANGED <<args, host, port, listenAddr, reqs, wire, self, URL_PATTERNS,
                   DEFAULT_RESPONSE, stdout, now, sigint, exitStatus>>

SendHeaderCors ==
    /\ pc = "send_header_cors"
    /\ self' = [self EXCEPT
                    !.headers = Append(@, <<"Access-Control-Allow-Origin", "*">>)]
    /\ pc' = "end_headers"
    /\ UNCHANGED <<args, host, port, listenAddr, reqs, wire, URL_PATTERNS,
                   DEFAULT_RESPONSE, stdout, now, sigint, exitStatus>>

(* self.end_headers(): the buffered status line and headers go out *)
EndHeaders ==
    /\ pc = "end_headers"
    /\ wire' = [wire EXCEPT ![self.req].status = self.status,
                            ![self.req].headers = self.headers]
    /\ pc' = "lookup"
    /\ UNCHANGED <<args, host, port, listenAddr, reqs, self, URL_PATTERNS,
                   DEFAULT_RESPONSE, stdout, now, sigint, exitStatus>>

(* The same statement written with dict.pop: the entry leaves the table *)
Lookup_pop ==
    /\ pc = "lookup"
    /\ self' = [self EXCEPT
                    !.response = DictGet(URL_PATTERNS, self.path, DEFAULT_RESPONSE)]
    /\ URL_PATTERNS' = [k \in DOMAIN URL_PATTERNS \ {self.path} |-> URL_PATTERNS[k]]
    /\ pc' = "write"
    /\ UNCHANGED <<args, host, port, listenAddr, reqs, wire,
                   DEFAULT_RESPONSE, stdout, now, sigint, exitStatus>>

(* The same statement written with dict.setdefault: a missing path is added *)
Lookup_setdefault ==
    /\ pc = "lookup"
    /\ self' = [self EXCEPT
                    !.response = DictGet(URL_PATTERNS, self.path, DEFAULT_RESPONSE)]
    /\ URL_PATTERNS' = [k \in DOMAIN URL_PATTERNS \cup {self.path} |->
                            DictGet(URL_PATTERNS, k, DEFAULT_RESPONSE)]
    /\ pc' = "write"
    /\ UNCHANGED <<args, host, port, listenAddr, reqs, wire,
                   DEFAULT_RESPONSE, stdout, now, sigint, exitStatus>>

(* response = self.URL_PATTERNS.get(self.path, self.DEFAULT_RESPONSE) *)
Lookup ==
    /\ pc = "lookup"
    /\ self' = [self EXCEPT
                    !.response = DictGet(URL_PATTERNS, self.path, DEFAULT_RESPONSE)]
    /\ pc' = "write"
    /\ UNCHANGED <<args, host, port, listenAddr, reqs, wire, URL_PATTERNS,
                   DEFAULT_RESPONSE, stdout, now, sigint, exitStatus>>

(* self.wfile.write(json.dumps(response).encode('utf-8')) *)
WriteBody ==
    /\ pc = "write"
    /\ wire' = [wire EXCEPT ![self.req].body = Utf8Encode(JsonDumps(self.response))]
    /\ pc' = "print"
    /\ UNCHANGED <<args, host, port, listenAddr, reqs, self, URL_PATTERNS,
                   DEFAULT_RESPONSE, stdout, now, sigint, exitStatus>>

PrintLog_default ==
    /\ pc = "print"
    /\ stdout' = Append(stdout, LogLine(self.path, DEFAULT_RESPONSE))
    /\ reqs' = [reqs EXCEPT ![self.req].st = "closed"]
    /\ self' = NoSelf
    /\ pc' = "serve_forever"
    /\ UNCHANGED <<args, host, port, listenAddr, wire, URL_PATTERNS,
                   DEFAULT_RESPONSE, now, sigint, exitStatus>>

(* print(f"Request: {self.path} -> Response: {response}"); do_GET returns,
   the connection is closed and serve_forever waits again. *)
PrintLog ==
    /\ pc = "print"
    /\ stdout' = Append(stdout, LogLine(self.path, self.response))
    /\ reqs' = [reqs EXCEPT ![self.req].st = "closed"]
    /\ self' = NoSelf
    /\ pc' = "serve_forever"
    /\ UNCHANGED <<args, host, port, listenAddr, wire, URL_PATTERNS,
                   DEFAULT_RESPONSE, now, sigint, exitStatus>>

----------------------------------------------------------------------------
(* __main__: the interrupt and its handler *)

(* SIGINT arrives while run_server is executing: KeyboardInterrupt unwinds
   whatever statement was running, a handler in progress included, up to the
   except clause. *)
Interrupt ==
    /\ ~sigint
    /\ pc \notin {"except", "exited", "crashed"}
    /\ sigint' = TRUE
    /\ reqs' = IF self.req # 0 THEN [reqs EXCEPT ![self.req].st = "aborted"]
               ELSE reqs
    /\ self' = NoSelf
    /\ pc' = "except"
    /\ UNCHANGED <<args, host, port, listenAddr, wire, URL_PATTERNS,
                   DEFAULT_RESPONSE, stdout, now, exitStatus>>

(* The except clause names another exception: the interrupt is not caught *)
Shutdown_uncaught ==
    /\ pc = "except"
    /\ listenAddr' = NoAddr
    /\ exitStatus' = "traceback"
    /\ pc' = "exited"
    /\ UNCHANGED <<args, host, port, reqs, wire, self, URL_PATTERNS,
                   DEFAULT_RESPONSE, stdout, now, sigint>>

(* except KeyboardInterrupt: print the notice; the script ends and the
   process exits, which closes the listening socket. *)
Shutdown ==
    /\ pc = "except"
    /\ stdout' = Append(stdout, ShutdownNotice)
    /\ listenAddr' = NoAddr
    /\ exitStatus' = "clean"
    /\ pc' = "exited"
    /\ UNCHANGED <<args, host, port, reqs, wire, self, URL_PATTERNS,
                   DEFAULT_RESPONSE, now, sigint>>

----------------------------------------------------------------------------

Next ==
    \/ CreateServer
    \/ BindFails
    \/ PrintBanner
    \/ Accept
    \/ SendResponse
    \/ SendHeaderContentType
    \/ SendHeaderCors
    \/ EndHeaders
    \/ Lookup
    \/ WriteBody
    \/ PrintLog
    \/ Interrupt
    \/ Shutdown
    \/ \E path \in Paths : Connect(path)

Spec == Init /\ [][Next]_vars

----------------------------------------------------------------------------
(* Observations used by the properties *)

Requests == 1..Len(reqs)

Range(seq) == {seq[i] : i \in 1..Len(seq)}

(* The status line and headers of r's response are on the wire *)
HeadersSent(r) == wire[r].status # 0

(* The whole response of r, body included, is on the wire *)
Answered(r) == wire[r].body # <<>>

(* do_GET ran to its end for r *)
Handled(r) == reqs[r].st = "closed"

(* The bytes of {"categories": [32, 21, 34]} and of {"categories": []} *)
MatchedBodyBytes ==
    <<123, 34, 99, 97, 116, 101, 103, 111, 114, 105, 101, 115, 34, 58, 32,
      91, 51, 50, 44, 32, 50, 49, 44, 32, 51, 52, 93, 125>>

EmptyBodyBytes ==
    <<123, 34, 99, 97, 116, 101, 103, 111, 114, 105, 101, 115, 34, 58, 32,
      91, 93, 125>>

ContentTypeHeader == <<"Content-Type", "application/json">>
CorsHeader == <<"Access-Control-Allow-Origin", "*">>

(* Every table path with a trailing slash or a query string appended *)
SuffixedTablePaths ==
    {p \o suffix : p \in {"/categories/192.168.0.3", "/categories/192.168.0.191",
                          "/categories/::1"},
                   suffix \in {"/", "?x=1"}}

(* The route table and the default response as the specification lists them *)
SpecifiedTable ==
    [p \in {"/categories/192.168.0.3", "/categories/192.168.0.191",
            "/categories/::1"} |-> [categories |-> <<32, 21, 34>>]]

SpecifiedDefault == [categories |-> <<>>]

(* For each response of the specification: its text in a log line and the
   bytes of its JSON *)
SpecifiedRenderings ==
    {<<"{'categories': [32, 21, 34]}", MatchedBodyBytes>>,
     <<"{'categories': []}", EmptyBodyBytes>>}

(* A header block without the Date header send_response stamps on it *)
WithoutDate(headers) == SelectSeq(headers, LAMBDA h : h[1] # "Date")

----------------------------------------------------------------------------
\* C1: a GET for any of the three table paths is answered with status 200
\* and the body {"categories": [32, 21, 34]}, the codes in that order.
C1_TablePathsAnswered ==
    \A r \in Requests :
        (reqs[r].path \in {"/categories/192.168.0.3", "/categories/192.168.0.191",
                           "/categories/::1"}
         /\ Answered(r))
        => /\ wire[r].status = 200
           /\ wire[r].body = MatchedBodyBytes

C1_Witness ==
    \E r \in Requests :
        /\ reqs[r].path = "/categories/::1"
        /\ Handled(r)
        /\ wire[r].body = MatchedBodyBytes

\* C2: a GET for a path that is not a key of the route table is answered
\* with status 200 and the body {"categories": []}.
C2_UnmatchedPathsGetDefault ==
    \A r \in Requests :
        (reqs[r].path \notin TablePaths /\ Answered(r))
        => /\ wire[r].status = 200
           /\ wire[r].body = EmptyBodyBytes

C2_Witness ==
    \E r \in Requests :
        /\ reqs[r].path = "/categories/10.0.0.1"
        /\ Handled(r)
        /\ wire[r].status = 200

\* C3: matching is exact string equality: a table path with a trailing
\* slash or a query string appended gets the default empty-category
\* response, not the response of the table path.
C3_ExactMatchOnly ==
    \A r \in Requests :
        (reqs[r].path \in SuffixedTablePaths /\ Answered(r))
        => /\ wire[r].body = EmptyBodyBytes
           /\ wire[r].body # MatchedBodyBytes

C3_Witness ==
    \E r1, r2 \in Requests :
        /\ reqs[r1].path = "/categories/192.168.0.3/"
        /\ reqs[r2].path = "/categories/192.168.0.3?x=1"
        /\ Handled(r1)
        /\ Handled(r2)

\* C4: every response, for a matched and for an unmatched path alike,
\* carries Content-Type: application/json and Access-Control-Allow-Origin: *.
C4_HeadersPresent ==
    \A r \in Requests :
        HeadersSent(r)
        => /\ ContentTypeHeader \in Range(wire[r].headers)
           /\ CorsHeader \in Range(wire[r].headers)

C4_Witness ==
    \E r1, r2 \in Requests :
        /\ reqs[r1].path \in TablePaths
        /\ reqs[r2].path \notin TablePaths
        /\ Handled(r1)
        /\ Handled(r2)
        /\ HeadersSent(r1)
        /\ HeadersSent(r2)

\* C5 as stated: two GETs for the same path yield byte-identical responses,
\* status, headers and body.
C5_ByteIdenticalResponses ==
    \A r1, r2 \in Requests :
        (reqs[r1].path = reqs[r2].path /\ Handled(r1) /\ Handled(r2))
        => wire[r1] = wire[r2]

\* C5 as amended: two GETs for the same path yield the same status, the same
\* headers apart from Date, and the same body, whatever was requested before.
C5_SameResponseApartFromDate ==
    \A r1, r2 \in Requests :
        (reqs[r1].path = reqs[r2].path /\ Answered(r1) /\ Answered(r2))
        => /\ wire[r1].status = wire[r2].status
           /\ WithoutDate(wire[r1].headers) = WithoutDate(wire[r2].headers)
           /\ wire[r1].body = wire[r2].body

C5_Witness ==
    \E r1, r2 \in Requests :
        /\ r1 # r2
        /\ reqs[r1].path = reqs[r2].path
        /\ reqs[r1].path \in TablePaths
        /\ Handled(r1)
        /\ Handled(r2)
        /\ wire[r1].headers # wire[r2].headers

\* C6: with several GETs in flight at once, the handler works on the path of
\* the connection it accepted and every request receives the response of its
\* own path.
C6_NoCrossContamination ==
    \A r \in Requests :
        /\ self.req = r => self.path = reqs[r].path
        /\ Answered(r)
           => wire[r].body = IF reqs[r].path \in TablePaths
                             THEN MatchedBodyBytes ELSE EmptyBodyBytes

C6_Witness ==
    \E r1, r2 \in Requests :
        /\ self.req = r1
        /\ Answered(r1)
        /\ reqs[r2].st = "queued"
        /\ reqs[r1].path \in TablePaths
        /\ reqs[r2].path \notin TablePaths

\* C7: once the interrupt has been delivered the server is out of its
\* serving loop: no connection is accepted or answered any more (a client
\* that still connects is left unserved), the only output still made is the
\* shutdown notice, and the process ends cleanly, the notice its last line
\* and the listening socket closed, after which no connection is possible.
C7_InterruptShutsDown ==
    [][ sigint =>
          /\ pc \in {"except", "exited"}
          /\ \A r \in Requests : reqs'[r] = reqs[r] /\ wire'[r] = wire[r]
          /\ \A r \in (1..Len(reqs')) \ Requests :
                reqs'[r].st = "queued" /\ wire'[r] = NothingSent
          /\ stdout' # stdout =>
                stdout' = Append(stdout, "\nShutting down server...")
          /\ pc' = "exited" =>
                /\ exitStatus' = "clean"
                /\ stdout'[Len(stdout')] = "\nShutting down server..."
                /\ listenAddr' = NoAddr
          /\ pc = "exited" => Len(reqs') = Len(reqs)
      ]_vars

C7_Witness ==
    /\ sigint
    /\ pc = "exited"
    /\ exitStatus = "clean"
    /\ \E r1, r2 \in Requests :
        /\ Handled(r1)
        /\ reqs[r2].st = "aborted"
        /\ HeadersSent(r2)
        /\ ~Answered(r2)

\* C8: the route table and the default response are never mutated: the
\* table always holds exactly its three entries with categories 32, 21, 34
\* and the default response always has no categories.
C8_TableNeverMutated ==
    /\ URL_PATTERNS = SpecifiedTable
    /\ DEFAULT_RESPONSE = SpecifiedDefault

C8_Witness ==
    \E r1, r2 \in Requests :
        /\ reqs[r1].path \in TablePaths
        /\ reqs[r2].path \notin TablePaths
        /\ Handled(r1)
        /\ Handled(r2)
        /\ pc = "serve_forever"

\* C9: every handled GET has exactly one log line "Request: <path> ->
\* Response: <response>" on stdout, with the request's own path and the
\* response whose JSON was written as its body; stdout holds no other line
\* than these, the banner and the shutdown notice.
C9_OneLogLinePerRequest ==
    LET handled == {r \in Requests : Handled(r)}
        logLines == SelectSeq(stdout,
                        LAMBDA l : l \notin {Banner(host, port), ShutdownNotice})
    IN  /\ Len(logLines) = Cardinality(handled)
        /\ \A r \in handled :
            \E rendering \in SpecifiedRenderings :
                /\ wire[r].body = rendering[2]
                /\ logLines[r] = "Request: " \o reqs[r].path \o " -> Response: "
                                     \o rendering[1]

C9_Witness ==
    \E r1, r2 \in Requests :
        /\ r1 < r2
        /\ reqs[r1].path = "/categories/192.168.0.191"
        /\ reqs[r2].path = "/categories/10.0.0.1"
        /\ Handled(r1)
        /\ Handled(r2)
        /\ stdout[1 + r1] = "Request: /categories/192.168.0.191 -> Response: {'categories': [32, 21, 34]}"
        /\ stdout[1 + r2] = "Request: /categories/10.0.0.1 -> Response: {'categories': []}"

\* C10: the listening socket is bound to exactly the host and port given
\* (0.0.0.0 and 8080 for whichever is not given), and the listening address
\* is the first line printed, before any connection is accepted.
C10_ListensOnGivenAddress ==
    LET h == IF "host" \in DOMAIN args THEN args["host"] ELSE "0.0.0.0"
        p == IF "port" \in DOMAIN args THEN args["port"] ELSE 8080
    IN  /\ listenAddr # NoAddr => listenAddr = <<h, p>>
        /\ (\E r \in Requests : reqs[r].st # "queued")
           => /\ Len(stdout) >= 1
              /\ stdout[1] = "Server running at http://" \o h \o ":" \o ToString(p)

C10_Witness ==
    /\ args = NoKwargs
    /\ listenAddr = <<"0.0.0.0", 8080>>
    /\ \E r \in Requests : Handled(r)
    /\ stdout[1] = "Server running at http://0.0.0.0:8080"

====
